---- MODULE Spec2Model ----
(***************************************************************************)
(* Model of the date-keyed ETH price store of KoolCards/crypto-trader:     *)
(*   src/data/persistence/parquet_dao.py  ParquetDao (the store)           *)
(*   src/data/live/fetch_live_price.py    LivePriceFetcher (live updater)  *)
(*   src/data/fetch_eth_history_cc.py     fetch_all / merge_and_save       *)
(*                                                                         *)
(* A calendar date is a day number (days since the epoch), a price is a    *)
(* small integer (0 stands for the non-positive prices), a DataFrame is a  *)
(* sequence of rows [date, price] in file order.  The Parquet file is a    *)
(* record [kind, rows]: kind says what is on disk ("absent", "zero" for a  *)
(* zero-byte file, "corrupt" for bytes pd.read_parquet rejects, "parquet"  *)
(* for a readable file holding rows).                                      *)
(***************************************************************************)
EXTENDS Integers, Sequences, FiniteSets, TLC

VARIABLES
    file,         \* the Parquet file on disk
    constructed,  \* a ParquetDao object exists in the running job
    lastOp,       \* the call that has just returned ("none": nothing pending)
    data,         \* the batch that call was given
    pre,          \* the file as it was when that call started
    raised,       \* TRUE iff that call ended by an exception reaching the caller
    ret,          \* what that call returned
    today,        \* date.today() as the live updater saw it
    pc,           \* position of the backfill job
    tz,           \* UTC offset (seconds) of the backfill job's local time zone
    to_ts,        \* fetch_all: the cursor
    i,            \* fetch_all: the loop index
    frames,       \* fetch_all: the pages fetched so far
    requests,     \* the cursors of the page requests issued, in order
    handed        \* the DataFrame __main__ hands to merge_and_save

vars == <<file, constructed, lastOp, data, pre, raised, ret, today,
          pc, tz, to_ts, i, frames, requests, handed>>

storeVars == <<constructed, lastOp, data, pre, raised, ret, today>>
backfillVars == <<pc, tz, to_ts, i, frames, requests, handed>>

(***************************************************************************)
(* Bounds of the model.                                                    *)
(***************************************************************************)
MaxDate == 2
MaxPrice == 2
MaxBatch == 2

\* MAX_LIMIT, the page size asked of the history API, is 2000 in the source.
\* The code only compares a page's length with it, so it is scaled down to
\* keep the pages enumerable.
MAX_LIMIT == 2
\* for i in range(2)
PageCap == 2
\* seconds in a day: the 86400 of fetch_all
SecondsPerDay == 86400

Dates == 1..MaxDate
\* what a caller upserts (the producers filter out the non-positive prices)
Prices == 1..MaxPrice
\* what the history API may return: 0 stands for a non-positive close
PagePrices == 0..MaxPrice
Row == [date : Dates, price : Prices]
PageRow == [date : Dates, price : PagePrices]

SeqsUpTo(S, n) == UNION {[1..k -> S] : k \in 0..n}
Batches == SeqsUpTo(Row, MaxBatch)
\* a page as fetch_batch returns it: at most MAX_LIMIT normalised points
Pages == SeqsUpTo(PageRow, MAX_LIMIT)

(***************************************************************************)
(* pandas helpers, as the code uses them.                                  *)
(***************************************************************************)
RECURSIVE Pick(_, _, _)
Pick(df, keep, k) ==
    IF k > Len(df) THEN <<>>
    ELSE (IF k \in keep THEN <<df[k]>> ELSE <<>>) \o Pick(df, keep, k + 1)

\* df.drop_duplicates(subset=['date'], keep='last')
drop_duplicates_last(df) ==
    Pick(df, {k \in 1..Len(df) :
                \A j \in (k + 1)..Len(df) : df[j].date # df[k].date}, 1)

\* df.drop_duplicates(subset=['date'])   (pandas' default is keep='first')
drop_duplicates_first(df) ==
    Pick(df, {k \in 1..Len(df) :
                \A j \in 1..(k - 1) : df[j].date # df[k].date}, 1)

\* df.sort_values('date').  The code sorts only frames whose dates are already
\* unique, so the order among equal dates (which pandas' default quicksort
\* leaves open) never matters; equal dates keep their order here.
RECURSIVE sort_values(_)
sort_values(df) ==
    IF df = <<>> THEN <<>>
    ELSE LET s == sort_values(SubSeq(df, 1, Len(df) - 1))
             r == df[Len(df)]
             k == Cardinality({j \in 1..Len(s) : s[j].date <= r.date})
         IN  SubSeq(s, 1, k) \o <<r>> \o SubSeq(s, k + 1, Len(s))

Parquet(df) == [kind |-> "parquet", rows |-> df]

\* Path.exists()
exists(f) == f.kind # "absent"

\* os.path.getsize(path) > 0
nonempty(f) == f.kind \in {"corrupt", "parquet"}

\* pd.read_parquet: raises unless the file is a readable Parquet file
read_parquet(f) == [ok |-> f.kind = "parquet", df |-> f.rows]

(***************************************************************************)
(* ParquetDao                                                              *)
(***************************************************************************)
\* _create_empty_file: zero rows, the two-column schema
create_empty_file == Parquet(<<>>)

\* insert_data's except branch without the handler
insert_data_combined_nocatch(f, df_new) ==
    IF exists(f) /\ nonempty(f)
    THEN [raised |-> ~read_parquet(f).ok,
          df |-> sort_values(drop_duplicates_last(read_parquet(f).df \o df_new))]
    ELSE [raised |-> FALSE, df |-> df_new]

\* insert_data, the frame it writes: df_combined
insert_data_combined(f, df_new) ==
    IF exists(f) /\ nonempty(f)
    THEN IF read_parquet(f).ok
         THEN [raised |-> FALSE,
               df |-> sort_values(drop_duplicates_last(read_parquet(f).df \o df_new))]
         ELSE [raised |-> FALSE, df |-> df_new]
    ELSE [raised |-> FALSE, df |-> df_new]

\* insert_data, the file it leaves
insert_data_file(f, df_new) ==
    IF insert_data_combined(f, df_new).raised THEN f
    ELSE Parquet(insert_data_combined(f, df_new).df)

\* read_all_data
read_all_data(f) ==
    IF ~exists(f) THEN [raised |-> FALSE, df |-> <<>>]
    ELSE IF read_parquet(f).ok THEN [raised |-> FALSE, df |-> read_parquet(f).df]
    ELSE [raised |-> FALSE, df |-> <<>>]

\* read_date_range(start_date, end_date)
read_date_range(f, start_date, end_date) ==
    IF ~exists(f) THEN [raised |-> FALSE, df |-> <<>>]
    ELSE IF read_parquet(f).ok
    THEN [raised |-> FALSE,
          df |-> SelectSeq(read_parquet(f).df,
                           LAMBDA r : r.date >= start_date /\ r.date <= end_date)]
    ELSE [raised |-> FALSE, df |-> <<>>]

\* Optional[float]: <<>> is None, <<p>> is the price p
\* get_latest_price: df.iloc[-1]['price']
get_latest_price(f) ==
    LET r == read_all_data(f)
    IN  [raised |-> r.raised,
         value |-> IF r.df = <<>> THEN <<>> ELSE <<r.df[Len(r.df)].price>>]

\* get_price_on_date: matching_rows.iloc[0]['price']
get_price_on_date(f, target_date) ==
    LET r == read_all_data(f)
        matching_rows == SelectSeq(r.df, LAMBDA x : x.date = target_date)
    IN  [raised |-> r.raised,
         value |-> IF matching_rows = <<>> THEN <<>> ELSE <<matching_rows[1].price>>]

SetMin(S) == CHOOSE x \in S : \A y \in S : x <= y
SetMax(S) == CHOOSE x \in S : \A y \in S : x >= y
DatesOf(df) == {df[k].date : k \in 1..Len(df)}
PricesOf(df) == {df[k].price : k \in 1..Len(df)}

\* get_data_info: total_records, date_range and price_range (min, max); the
\* mean and the file size are left out
get_data_info(f) ==
    LET r == read_all_data(f)
    IN  [raised |-> r.raised,
         value |-> IF r.df = <<>>
                   THEN [total_records |-> 0, date_range |-> <<>>, price_range |-> <<>>]
                   ELSE [total_records |-> Len(r.df),
                         date_range |-> <<SetMin(DatesOf(r.df)), SetMax(DatesOf(r.df))>>,
                         price_range |-> <<SetMin(PricesOf(r.df)), SetMax(PricesOf(r.df))>>]]

(***************************************************************************)
(* The store's operations as steps.  A job constructs a ParquetDao, makes  *)
(* calls on it one at a time, and ends; only the file outlives it.         *)
(***************************************************************************)
NoFrame == <<>>

\* ParquetDao.__init__: create the empty file when there is none
ParquetDao_init ==
    /\ ~constructed
    /\ lastOp = "none"
    /\ pc = "idle"
    /\ constructed' = TRUE
    /\ file' = IF exists(file) THEN file ELSE create_empty_file
    /\ UNCHANGED <<lastOp, data, pre, raised, ret, today>>
    /\ UNCHANGED backfillVars

Idle == constructed /\ lastOp = "none"

insert_data ==
    /\ Idle
    /\ \E batch \in Batches :
         /\ lastOp' = "insert_data"
         /\ data' = batch
         /\ pre' = file
         /\ raised' = insert_data_combined(file, batch).raised
         /\ file' = insert_data_file(file, batch)
         /\ ret' = NoFrame
    /\ UNCHANGED <<constructed, today>>
    /\ UNCHANGED backfillVars

ReadCall(op, r) ==
    /\ lastOp' = op
    /\ data' = <<>>
    /\ pre' = file
    /\ raised' = r.raised
    /\ ret' = r
    /\ UNCHANGED <<file, constructed, today>>
    /\ UNCHANGED backfillVars

call_read_all_data ==
    /\ Idle
    /\ ReadCall("read_all_data", read_all_data(file))

call_read_date_range ==
    /\ Idle
    /\ \E s \in Dates, e \in Dates :
         ReadCall("read_date_range", read_date_range(file, s, e))

call_get_latest_price ==
    /\ Idle
    /\ ReadCall("get_latest_price", get_latest_price(file))

call_get_price_on_date ==
    /\ Idle
    /\ \E d \in Dates : ReadCall("get_price_on_date", get_price_on_date(file, d))

call_get_data_info ==
    /\ Idle
    /\ ReadCall("get_data_info", get_data_info(file))

\* LivePriceFetcher.fetch_and_insert_live_price: _fetch_live_price returns a
\* price or raises; on success _insert_live_price upserts [(date.today(), price)]
fetch_and_insert_live_price ==
    /\ Idle
    /\ \E d \in Dates :
         /\ today' = d
         /\ pre' = file
         /\ \/ \E price \in Prices :
                 /\ lastOp' = "live_ok"
                 /\ data' = <<[date |-> d, price |-> price]>>
                 /\ raised' = insert_data_combined(file, data').raised
                 /\ file' = insert_data_file(file, data')
            \/ /\ lastOp' = "live_failed"
               /\ data' = <<>>
               /\ raised' = TRUE
               /\ file' = file
    /\ ret' = NoFrame
    /\ UNCHANGED constructed
    /\ UNCHANGED backfillVars

\* The call's result is dropped; the job may go on or end (main returns), and
\* the ParquetDao object dies with it.
Return ==
    /\ lastOp # "none"
    /\ lastOp' = "none"
    /\ data' = <<>>
    /\ pre' = file
    /\ raised' = FALSE
    /\ ret' = NoFrame
    /\ today' = 0
    /\ constructed' \in {constructed, FALSE}
    /\ UNCHANGED file
    /\ UNCHANGED backfillVars

InitFiles == {[kind |-> "absent", rows |-> <<>>],
              [kind |-> "zero", rows |-> <<>>],
              [kind |-> "corrupt", rows |-> <<>>]}

\* No job is running: no ParquetDao object, no call pending, no backfill
NoJob ==
    /\ constructed = FALSE
    /\ lastOp = "none"
    /\ data = <<>>
    /\ pre = file
    /\ raised = FALSE
    /\ ret = NoFrame
    /\ today = 0
    /\ pc = "idle"
    /\ tz = 0
    /\ to_ts = 0
    /\ i = 0
    /\ frames = <<>>
    /\ requests = <<>>
    /\ handed = <<>>

\* Before the first job the file is absent, or is something no job wrote
Init ==
    /\ file \in InitFiles
    /\ NoJob

NextStore ==
    \/ ParquetDao_init
    \/ insert_data
    \/ call_read_all_data
    \/ call_read_date_range
    \/ call_get_latest_price
    \/ call_get_price_on_date
    \/ call_get_data_info
    \/ fetch_and_insert_live_price
    \/ Return

SpecStore == Init /\ [][NextStore]_vars

(***************************************************************************)
(* History backfill: fetch_eth_history_cc.py                               *)
(***************************************************************************)
\* The UTC offsets (seconds) of the time zones the job may run in
TZOffsets == {-18000, 0, 7200}

\* datetime.now(tz=timezone.utc).timestamp(): the job runs in the last second
\* of the last modelled day
NowTs == (MaxDate + 1) * SecondsPerDay - 1

\* pd.to_datetime(time, unit="s", utc=True).dt.date: the UTC day of an epoch
DateOfTs(ts) == ts \div SecondsPerDay

\* int(d.strftime("%s")): the epoch of midnight of day d in the LOCAL time zone
strftime_s(d, off) == d * SecondsPerDay - off

\* the next cursor: int(batch["date"].min().strftime("%s")) - 86400
next_to_ts(batch, off) == strftime_s(SetMin(DatesOf(batch)), off) - SecondsPerDay

RECURSIVE concat(_)
\* pd.concat(frames, ignore_index=True)
concat(fs) == IF fs = <<>> THEN <<>> ELSE fs[1] \o concat(Tail(fs))

\* fetch_all's return value with keep='last' in place of the default
fetch_all_df_keep_last(fs) == sort_values(drop_duplicates_last(concat(fs)))

\* fetch_all's return value:
\* df.drop_duplicates(subset=["date"]).sort_values("date").reset_index(drop=True)
fetch_all_df(fs) == sort_values(drop_duplicates_first(concat(fs)))

\* __main__: df = df[df['price'] > 0]
positive(df) == SelectSeq(df, LAMBDA r : r.price > 0)

\* merge_and_save: the file it writes
merge_and_save(f, new_df) ==
    LET existing == IF exists(f) /\ read_parquet(f).ok THEN read_parquet(f).df ELSE <<>>
    IN  Parquet(sort_values(drop_duplicates_last(existing \o new_df)))

\* fetch_all up to the loop: frames = [], to_ts = now.  The job's time zone
\* is fixed by its environment.
fetch_all_start ==
    /\ pc = "idle"
    /\ ~constructed
    /\ lastOp = "none"
    /\ \E off \in TZOffsets : tz' = off
    /\ pc' = "loop"
    /\ to_ts' = NowTs
    /\ i' = 0
    /\ frames' = <<>>
    /\ requests' = <<>>
    /\ handed' = <<>>
    /\ UNCHANGED file
    /\ UNCHANGED storeVars

\* fetch_batch raises (bad status, or an empty "Data" list, which has no
\* "time" column): the job aborts before anything is written
fetch_batch_raises ==
    /\ pc = "loop"
    /\ requests' = Append(requests, to_ts)
    /\ pc' = "aborted"
    /\ UNCHANGED <<file, tz, to_ts, i, frames, handed>>
    /\ UNCHANGED storeVars

\* an iteration whose page is short: break
fetch_short_page ==
    /\ pc = "loop"
    /\ \E batch \in Pages :
         /\ batch # <<>>
         /\ Len(batch) < MAX_LIMIT
         /\ frames' = Append(frames, batch)
    /\ requests' = Append(requests, to_ts)
    /\ pc' = "concat"
    /\ UNCHANGED <<file, tz, to_ts, i, handed>>
    /\ UNCHANGED storeVars

\* an iteration whose page is full: move the cursor; the loop ends when the
\* range is used up
fetch_full_page ==
    /\ pc = "loop"
    /\ \E batch \in Pages :
         /\ Len(batch) >= MAX_LIMIT
         /\ frames' = Append(frames, batch)
         /\ to_ts' = next_to_ts(batch, tz)
    /\ requests' = Append(requests, to_ts)
    /\ i' = i + 1
    /\ pc' = IF i + 1 < PageCap THEN "loop" ELSE "concat"
    /\ UNCHANGED <<file, tz, handed>>
    /\ UNCHANGED storeVars

\* fetch_all returns; __main__ filters the prices and calls merge_and_save
main_merge_and_save ==
    /\ pc = "concat"
    /\ handed' = positive(fetch_all_df(frames))
    /\ file' = merge_and_save(file, handed')
    /\ pc' = "done"
    /\ UNCHANGED <<tz, to_ts, i, frames, requests>>
    /\ UNCHANGED storeVars

\* The backfill job starts on any file an earlier job may have left
InitBackfill ==
    /\ file \in {[kind |-> "absent", rows |-> <<>>],
                 [kind |-> "corrupt", rows |-> <<>>],
                 Parquet(<<>>),
                 Parquet(<<[date |-> 1, price |-> MaxPrice]>>)}
    /\ NoJob

NextBackfill ==
    \/ fetch_all_start
    \/ fetch_batch_raises
    \/ fetch_short_page
    \/ fetch_full_page
    \/ main_merge_and_save

SpecBackfill == InitBackfill /\ [][NextBackfill]_vars

Next == NextStore \/ NextBackfill

Spec == Init /\ [][Next]_vars

(***************************************************************************)
(* Properties of the store, stated for SpecStore                           *)
(***************************************************************************)
Wrote == lastOp \in {"insert_data", "live_ok"}
Unreadable(f) == f.kind \in {"zero", "corrupt"}
HasDuplicates(df) == \E j, k \in 1..Len(df) : j < k /\ df[j].date = df[k].date
Sorted(df) == \A j, k \in 1..Len(df) : j < k => df[j].date <= df[k].date
\* the price of the last row of df dated d
LastPrice(df, d) ==
    df[SetMax({k \in 1..Len(df) : df[k].date = d})].price
\* the price of the first row of df dated d
FirstPrice(df, d) ==
    df[SetMin({k \in 1..Len(df) : df[k].date = d})].price

\* C1: after any upsert, from any condition of the existing file and for any
\* batch, the persisted dataset holds at most one row per date.
C1_UniqueAfterUpsert ==
    Wrote => ~HasDuplicates(file.rows)

\* C2: after any write, from any condition of the existing file, the persisted
\* rows (what read_all_data returns) are in non-decreasing date order.
C2_SortedAfterWrite ==
    Wrote => Sorted(read_all_data(file).df)

\* C3: after an upsert, the price stored for every date of the batch is the
\* price of that date's last occurrence in the batch.
C3_LastWriteWins ==
    lastOp = "insert_data" =>
        \A d \in DatesOf(data) :
            get_price_on_date(file, d).value = <<LastPrice(data, d)>>

\* C4: upserting the batch a second time leaves the persisted dataset exactly
\* as the first upsert left it.
C4_Idempotent ==
    lastOp = "insert_data" => insert_data_file(file, data) = file

\* C5: after any sequence of upserts get_latest_price returns the price of a
\* row of maximum date, and None when the store holds no rows.
C5_LatestIsMaxDate ==
    (constructed /\ file.kind = "parquet") =>
        IF file.rows = <<>>
        THEN get_latest_price(file).value = <<>>
        ELSE \E k \in 1..Len(file.rows) :
               /\ file.rows[k].date = SetMax(DatesOf(file.rows))
               /\ get_latest_price(file).value = <<file.rows[k].price>>

EmptyResult(op) ==
    CASE op = "read_all_data" -> [raised |-> FALSE, df |-> <<>>]
      [] op = "read_date_range" -> [raised |-> FALSE, df |-> <<>>]
      [] op = "get_latest_price" -> [raised |-> FALSE, value |-> <<>>]
      [] op = "get_price_on_date" -> [raised |-> FALSE, value |-> <<>>]
      [] op = "get_data_info" ->
           [raised |-> FALSE,
            value |-> [total_records |-> 0, date_range |-> <<>>, price_range |-> <<>>]]

ReadOps == {"read_all_data", "read_date_range", "get_latest_price",
            "get_price_on_date", "get_data_info"}

\* C6: a call that found the file present but unreadable never raises: an
\* upsert rewrites the file from the batch alone (exactly the rows of the
\* batch, as when there is no file to read), and each read operation returns
\* its empty-dataset result; no read operation changes the file.
C6_ReadFailureContained ==
    /\ (Unreadable(pre) /\ Wrote) => (~raised /\ file = Parquet(data))
    /\ (Unreadable(pre) /\ lastOp \in ReadOps) => (~raised /\ ret = EmptyResult(lastOp))
    /\ lastOp \in ReadOps => file = pre

\* C6 happens: an upsert and a read have each met a corrupt file
C6_Witness ==
    /\ pre.kind = "corrupt"
    /\ \/ lastOp = "insert_data" /\ Len(data) = MaxBatch /\ file = Parquet(data)
       \/ lastOp = "get_data_info" /\ ret.value.total_records = 0

\* C7: a successful live update stores the fetched price for today and keeps
\* every row persisted for another date, price unchanged; a failed fetch
\* leaves the persisted dataset as it was.
C7_LiveFrame ==
    /\ lastOp = "live_ok" =>
         /\ get_price_on_date(file, today).value = <<data[1].price>>
         /\ \A k \in 1..Len(pre.rows) :
              pre.rows[k].date # today =>
                \E j \in 1..Len(file.rows) : file.rows[j] = pre.rows[k]
    /\ lastOp = "live_failed" => file = pre

(***************************************************************************)
(* Properties of the backfill, stated for SpecBackfill                     *)
(***************************************************************************)
\* C8: at most PageCap (2) page requests; a second request only after a first
\* page of at least MAX_LIMIT points; none after a short page; the second
\* request's cursor falls on the day before the first page's earliest date.
C8_Pagination ==
    /\ Len(requests) <= PageCap
    /\ Len(requests) >= 2 => Len(frames[1]) >= MAX_LIMIT
    /\ \A k \in 1..Len(frames) : Len(frames[k]) < MAX_LIMIT => Len(requests) = k
    /\ Len(requests) >= 2 =>
         DateOfTs(requests[2]) = SetMin(DatesOf(frames[1])) - 1

\* C9 as stated: each handed row carries the price of the last-processed
\* (positive-priced) occurrence of its date; the handed rows have one row per
\* date and ascend by date.
C9_KeepLastSeen ==
    pc = "done" =>
        /\ ~HasDuplicates(handed)
        /\ Sorted(handed)
        /\ \A k \in 1..Len(handed) :
             handed[k].price = LastPrice(positive(concat(frames)), handed[k].date)

\* C9 amended: each handed row carries the price of the FIRST-processed
\* occurrence of its date in the accumulated pages; the handed rows have at
\* most one row per date and ascend by date.
C9_KeepFirstSeen ==
    pc = "done" =>
        /\ ~HasDuplicates(handed)
        /\ Sorted(handed)
        /\ DatesOf(handed) \subseteq DatesOf(concat(frames))
        /\ \A k \in 1..Len(handed) :
             handed[k].price = FirstPrice(concat(frames), handed[k].date)

\* C9 happens: two pages carry the same date with different positive prices
C9_Witness ==
    /\ pc = "done"
    /\ Len(frames) = 2
    /\ \E a \in 1..Len(frames[1]), b \in 1..Len(frames[2]) :
         /\ frames[1][a].date = frames[2][b].date
         /\ frames[1][a].price > 0
         /\ frames[2][b].price > 0
         /\ frames[1][a].price # frames[2][b].price
         /\ frames[1][a].date \in DatesOf(handed)

\* C10: every handed row has a positive price, and a fetched date is missing
\* from the handed rows only if all its occurrences are non-positive.
C10_FilterBeforeDedup ==
    pc = "done" =>
        /\ \A k \in 1..Len(handed) : handed[k].price > 0
        /\ \A r \in DatesOf(positive(concat(frames))) : r \in DatesOf(handed)

====
